---- MODULE Spec2Model ----
(***************************************************************************)
(* Model of fgclassifier/baseline.py: the Baseline pipeline constructor,   *)
(* the scoring multi-output adapter, the derived model name, predict_df    *)
(* and the Dummy variant.                                                  *)
(*                                                                         *)
(* A component instance is the sequence of its class names from the        *)
(* outermost wrapper inwards: <<"LogisticRegression">> is a raw            *)
(* classifier, <<"MultiOutputClassifier", "LogisticRegression">> is the    *)
(* scoring adapter of this module around it, and <<>> is Python's None.    *)
(* A step specification is a record tagged "none" (None), "str" (a string  *)
(* key), "inst" (a bare instance) or "pair" (a (name, component) tuple).   *)
(***************************************************************************)
EXTENDS Integers, Sequences, FiniteSets, TLC

VARIABLES stepsLiteral, callerSteps, call, result, model,
          estimators, df, out, disk

vars == <<stepsLiteral, callerSteps, call, result, model,
          estimators, df, out, disk>>

\* ------------------------------------------------------------------------
\* Bounds
\* ------------------------------------------------------------------------
MaxSteps == 2
MaxListLen == 3
MaxRows == 2
MaxCols == 2
MaxFits == 1

\* ------------------------------------------------------------------------
\* Step specifications and components
\* ------------------------------------------------------------------------
NoneSpec == [tag |-> "none", name |-> "", comp |-> <<>>]

Str(n) == [tag |-> "str", name |-> n, comp |-> <<>>]

Inst(c) == [tag |-> "inst", name |-> "", comp |-> c]

Pair(n, c) == [tag |-> "pair", name |-> n, comp |-> c]

\* the `steps` argument: None, or a list object
NoSteps == [none |-> TRUE, val |-> <<>>]

Given(l) == [none |-> FALSE, val |-> l]

LR == <<"LogisticRegression">>

\* sklearn.multioutput.MultiOutputClassifier, imported as MultiOutputClassifier_
MultiOutputClassifier_(c) == <<"MultiOutputClassifier_">> \o c

\* the subclass of this module, which adds scores() and score()
MultiOutputClassifier(c) == <<"MultiOutputClassifier">> \o c

AdapterClasses == {"MultiOutputClassifier", "MultiOutputClassifier_"}

RawClassifiers == {"LogisticRegression"}

\* isinstance(c, MultiOutputClassifier): the subclass only
IsScoringAdapter(c) == Len(c) > 0 /\ c[1] = "MultiOutputClassifier"

\* the registry module fgclassifier.classifiers: attribute name -> entry
classifiers == ("LogisticRegression" :> LR)

\* fgclassifier.features.fm_spec: feature model name -> transform
fm_spec == ("tfidf" :> <<"Tfidf">>) @@ ("count" :> <<"Count">>)

DummyTransform == <<"DummyTransform">>

\* ------------------------------------------------------------------------
\* StepNormalizer (fgclassifier.features.ensure_named_steps)
\* ------------------------------------------------------------------------
Stage(n, c) == [name |-> n, comp |-> c]

Resolvable(s, spec) == s.tag = "str" => s.name \in DOMAIN spec

NamedStep(s, spec) ==
    IF s.tag = "str" THEN Stage(s.name, spec[s.name])
    ELSE IF s.tag = "inst" THEN Stage(s.comp[1], s.comp)
    ELSE Stage(s.name, s.comp)

ensure_named_steps(steps, spec) ==
    IF \A i \in 1..Len(steps) : Resolvable(steps[i], spec)
    THEN [error |-> "", steps |-> [i \in 1..Len(steps) |-> NamedStep(steps[i], spec)]]
    ELSE [error |-> "UnknownComponentError", steps |-> <<>>]

\* ------------------------------------------------------------------------
\* Baseline.__init__
\* ------------------------------------------------------------------------
\* `fm is not None` and `steps is not None`
BothGivenTruthy(fm, steps) == fm.tag # "none" /\ steps.val # <<>>

BothGiven(fm, steps) == fm.tag # "none" /\ ~steps.none

\* the list object the constructor works on, and whether it is the caller's
Aliased(fm, steps) == fm.tag = "none" /\ ~steps.none /\ steps.val # <<>>

InitialSteps(fm, steps) ==
    IF fm.tag # "none" THEN <<fm>>
    ELSE IF steps.none \/ steps.val = <<>> THEN <<>>
    ELSE steps.val

ResolveClassifier(classifier) ==
    IF classifier.tag = "str" /\ classifier.name \in DOMAIN classifiers
    THEN Pair(classifier.name, classifiers[classifier.name])
    ELSE classifier

AppendClassifier(steps, classifier) ==
    IF classifier.tag # "none" THEN Append(steps, classifier) ELSE steps

EnsureMultiOutputRenaming(named) ==
    [named EXCEPT ![Len(named)] =
        Stage("MultiOutputClassifier", MultiOutputClassifier(named[Len(named)].comp))]

EnsureMultiOutput(named) ==
    IF ~IsScoringAdapter(named[Len(named)].comp)
    THEN [named EXCEPT ![Len(named)] =
            Stage(named[Len(named)].name,
                  MultiOutputClassifier(named[Len(named)].comp))]
    ELSE named

Outcome(e, ph, nm, pl, l) ==
    [error |-> e, phases |-> ph, named |-> nm, pipeline |-> pl, list |-> l]

Baseline__init__(classifier, fm, steps) ==
    IF BothGiven(fm, steps)
    THEN Outcome("ValueError", <<>>, <<>>, <<>>, steps.val)
    ELSE
      LET steps1 == InitialSteps(fm, steps)
          steps2 == AppendClassifier(steps1, ResolveClassifier(classifier))
          list2 == IF Aliased(fm, steps) THEN steps2 ELSE steps.val
          ph2 == IF classifier.tag # "none" THEN <<"append">> ELSE <<>>
          norm == ensure_named_steps(steps2, fm_spec)
          ph3 == Append(ph2, "normalize")
      IN  IF norm.error # ""
          THEN Outcome(norm.error, ph3, <<>>, <<>>, list2)
          ELSE IF norm.steps = <<>>
          THEN Outcome("IndexError", ph3, norm.steps, <<>>, list2)
          ELSE LET wrapped == EnsureMultiOutput(norm.steps)
                   ph4 == IF wrapped # norm.steps THEN Append(ph3, "wrap") ELSE ph3
               IN  Outcome("", Append(ph4, "pipeline"), norm.steps, wrapped, list2)

\* ------------------------------------------------------------------------
\* Dummy.__init__
\* ------------------------------------------------------------------------
DummyStepsMissing == <<>>

DummySteps == <<Pair("dummy_transform", DummyTransform)>>

Dummy__init__(classifier) == Baseline__init__(classifier, NoneSpec, Given(DummySteps))

\* ------------------------------------------------------------------------
\* Baseline.classifier_name, fm_name, name
\* ------------------------------------------------------------------------
classifier_name(m) == m.steps[Len(m.steps)].name

fm_nameFirstStage(m) ==
    IF Len(m.steps) > 1 THEN m.steps[1].name ELSE "unknown_fm"

fm_name(m) ==
    IF Len(m.steps) > 1 THEN m.steps[Len(m.steps) - 1].name ELSE "unknown_fm"

name(m) == fm_name(m) \o "_" \o classifier_name(m)

\* ------------------------------------------------------------------------
\* Inputs
\* ------------------------------------------------------------------------
ClassifierInputs ==
    { NoneSpec, Str("LogisticRegression"), Str("tfidf"), Str("nope"),
      Inst(LR), Inst(MultiOutputClassifier(LR)), Inst(MultiOutputClassifier_(LR)),
      Pair("clf", LR) }

FmInputs == { Str("tfidf"), Inst(<<"Count">>) }

StepInputs == { Str("tfidf"), Inst(<<"Count">>), Pair("skip", <<>>) }

RECURSIVE ListsUpTo(_, _)
ListsUpTo(S, n) ==
    IF n = 0 THEN { <<>> }
    ELSE LET shorter == ListsUpTo(S, n - 1)
         IN  shorter \cup { Append(l, s) : l \in shorter, s \in S }

StepLiterals == ListsUpTo(StepInputs, MaxSteps)

NoCall == [op |-> "none", classifier |-> NoneSpec, fm |-> NoneSpec,
           stepsGiven |-> FALSE, stepsBefore |-> <<>>]

NoResult == [error |-> "", phases |-> <<>>, named |-> <<>>]

NoModel == [exists |-> FALSE, steps |-> <<>>]

Unfitted == [fitted |-> FALSE, params |-> <<>>, fits |-> 0]

NoDisk == [exists |-> FALSE, content |-> <<>>]

Ok(v) == [error |-> "", val |-> v]

Err(e) == [error |-> e, val |-> <<>>]

NoSaveTo == [none |-> TRUE, path |-> ""]

SaveTo(p) == [none |-> FALSE, path |-> p]

OutRec(op, o, save_to, before) ==
    [op |-> op, error |-> o.error, val |-> o.val,
     saveTo |-> save_to, diskBefore |-> before]

NoOut == OutRec("none", Ok(<<>>), NoSaveTo, NoDisk)

\* ------------------------------------------------------------------------
\* Construction: state and actions
\* ------------------------------------------------------------------------
Init ==
    /\ stepsLiteral \in StepLiterals
    /\ callerSteps = stepsLiteral
    /\ call = NoCall
    /\ result = NoResult
    /\ model = NoModel
    /\ estimators = Unfitted
    /\ df = <<>>
    /\ out = NoOut
    /\ disk = NoDisk

Returned(o) ==
    /\ result' = [error |-> o.error, phases |-> o.phases, named |-> o.named]
    /\ model' = IF o.error = "" THEN [exists |-> TRUE, steps |-> o.pipeline]
                ELSE NoModel
    /\ UNCHANGED <<stepsLiteral, estimators, df, out, disk>>

\* Baseline(classifier)
ConstructPlain(classifier) ==
    /\ call' = [op |-> "Baseline", classifier |-> classifier, fm |-> NoneSpec,
                stepsGiven |-> FALSE, stepsBefore |-> <<>>]
    /\ Returned(Baseline__init__(classifier, NoneSpec, NoSteps))
    /\ UNCHANGED callerSteps

\* Baseline(classifier, fm=fm)
ConstructFm(classifier, fm) ==
    /\ call' = [op |-> "Baseline", classifier |-> classifier, fm |-> fm,
                stepsGiven |-> FALSE, stepsBefore |-> <<>>]
    /\ Returned(Baseline__init__(classifier, fm, NoSteps))
    /\ UNCHANGED callerSteps

\* Baseline(classifier, steps=callerSteps), the list object the caller holds
ConstructSteps(classifier) ==
    /\ Len(callerSteps) < MaxListLen
    /\ call' = [op |-> "Baseline", classifier |-> classifier, fm |-> NoneSpec,
                stepsGiven |-> TRUE, stepsBefore |-> callerSteps]
    /\ LET o == Baseline__init__(classifier, NoneSpec, Given(callerSteps))
       IN  /\ Returned(o)
           /\ callerSteps' = o.list

\* Baseline(classifier, fm=fm, steps=callerSteps)
ConstructBoth(classifier, fm) ==
    /\ call' = [op |-> "Baseline", classifier |-> classifier, fm |-> fm,
                stepsGiven |-> TRUE, stepsBefore |-> callerSteps]
    /\ LET o == Baseline__init__(classifier, fm, Given(callerSteps))
       IN  /\ Returned(o)
           /\ callerSteps' = o.list

\* Dummy(classifier)
ConstructDummy(classifier) ==
    /\ call' = [op |-> "Dummy", classifier |-> classifier, fm |-> NoneSpec,
                stepsGiven |-> FALSE, stepsBefore |-> <<>>]
    /\ Returned(Dummy__init__(classifier))
    /\ UNCHANGED callerSteps

Next ==
    \/ \E c \in ClassifierInputs : ConstructPlain(c)
    \/ \E c \in ClassifierInputs, f \in FmInputs : ConstructFm(c, f)
    \/ \E c \in ClassifierInputs : ConstructSteps(c)
    \/ \E c \in ClassifierInputs, f \in FmInputs : ConstructBoth(c, f)
    \/ \E c \in ClassifierInputs : ConstructDummy(c)

Spec == Init /\ [][Next]_vars

\* ------------------------------------------------------------------------
\* Properties of construction
\* ------------------------------------------------------------------------
IsAdapter(c) == Len(c) > 0 /\ c[1] \in AdapterClasses

AdapterLayers(c) == Cardinality({ i \in 1..Len(c) : c[i] \in AdapterClasses })

LastStage(m) == m.steps[Len(m.steps)]

\* C1: whenever both fm and steps are supplied (steps may be the empty list),
\* construction fails with the configuration error (ValueError) before the
\* classifier is appended, before normalization, wrapping and pipeline
\* construction and before any fitting; the caller's list is untouched and no
\* model object results.
C1_BothRejected ==
    (call.op = "Baseline" /\ call.fm.tag # "none" /\ call.stepsGiven) =>
        /\ result.error = "ValueError"
        /\ result.phases = <<>>
        /\ ~model.exists
        /\ callerSteps = call.stepsBefore
        /\ ~estimators.fitted

C1_Witness ==
    /\ call.op = "Baseline" /\ call.fm.tag # "none" /\ call.stepsGiven
    /\ call.stepsBefore = <<>>
    /\ call.classifier.tag = "inst"
    /\ result.error = "ValueError"

\* C2: after a successful construction the last stage's component is a
\* multi-output adapter, the last stage keeps the name the normalized stage
\* had before wrapping, and every other stage is the normalized stage itself.
C2_LastStageAdapterNamePreserved ==
    model.exists =>
        /\ Len(model.steps) = Len(result.named)
        /\ IsAdapter(LastStage(model).comp)
        /\ LastStage(model).name = result.named[Len(result.named)].name
        /\ \A i \in 1..(Len(model.steps) - 1) : model.steps[i] = result.named[i]

C2_Witness ==
    /\ model.exists
    /\ Len(model.steps) >= 2
    /\ result.named[Len(result.named)].comp = LR
    /\ LastStage(model) = Stage("clf", MultiOutputClassifier(LR))

\* C3: for every classifier supplied, the final stage holds exactly one layer
\* of multi-output adapter, whether the classifier came raw, wrapped in this
\* module's scoring adapter or wrapped in the library's base adapter.
C3_WrapOnce ==
    (model.exists /\ call.classifier.tag # "none") =>
        AdapterLayers(LastStage(model).comp) = 1

\* C4: the caller's steps list is unchanged by construction, and a model
\* built from it has exactly the caller's transform steps followed by one
\* classifier stage.
C4_StepsNotMutated ==
    /\ callerSteps = stepsLiteral
    /\ (model.exists /\ call.op = "Baseline" /\ call.stepsGiven
            /\ call.classifier.tag # "none") =>
         /\ Len(model.steps) = Len(stepsLiteral) + 1
         /\ \A i \in 1..Len(stepsLiteral) :
                model.steps[i] = NamedStep(stepsLiteral[i], fm_spec)

\* C7: name is fm_name, "_" and classifier_name, where classifier_name is the
\* last stage's name and fm_name is the second-to-last stage's name, or
\* "unknown_fm" for a one-stage pipeline; a classifier given with neither fm
\* nor steps yields the one-stage pipeline.
C7_Name ==
    model.exists =>
        /\ name(model) =
             (IF Len(model.steps) = 1 THEN "unknown_fm"
              ELSE model.steps[Len(model.steps) - 1].name)
             \o "_" \o model.steps[Len(model.steps)].name
        /\ (call.op = "Baseline" /\ call.fm.tag = "none" /\ ~call.stepsGiven) =>
             /\ Len(model.steps) = 1
             /\ name(model) = "unknown_fm_" \o LastStage(model).name

C7_Witness ==
    /\ model.exists
    /\ Len(model.steps) = 3
    /\ name(model) = "Count_clf"

\* C8: every Dummy built with a classifier has exactly two stages, the first
\* being ("dummy_transform", DummyTransform()), so fm_name is
\* "dummy_transform" and name is "dummy_transform_" + classifier stage name,
\* whatever was constructed before.
C8_DummyName ==
    (model.exists /\ call.op = "Dummy" /\ call.classifier.tag # "none") =>
        /\ Len(model.steps) = 2
        /\ model.steps[1] = Stage("dummy_transform", DummyTransform)
        /\ fm_name(model) = "dummy_transform"
        /\ name(model) = "dummy_transform_" \o LastStage(model).name

C8_Witness ==
    /\ model.exists /\ call.op = "Dummy"
    /\ callerSteps # stepsLiteral
    /\ name(model) = "dummy_transform_LogisticRegression"

\* C9: a classifier string that the classifier registry cannot resolve makes
\* construction fail with the unknown-component error and never yields a
\* model; a string the registry resolves names the final stage.
C9_UnknownClassifierString ==
    /\ (call.op # "none" /\ call.classifier.tag = "str"
            /\ call.classifier.name \notin DOMAIN classifiers) =>
         /\ ~model.exists
         /\ ~(call.fm.tag # "none" /\ call.stepsGiven) =>
                result.error = "UnknownComponentError"
    /\ (model.exists /\ call.classifier.tag = "str"
            /\ call.classifier.name \in DOMAIN classifiers) =>
         LastStage(model).name = call.classifier.name


\* ------------------------------------------------------------------------
\* Data: a table is a sequence of rows, a row has a content cell (a text,
\* here its identifier 1 or 2) and one label (0 or 1) per target column
\* ------------------------------------------------------------------------
\* the '' written to the content column
EmptyContent == 0

\* the content columns and target columns the tables are made of: constant
\* or alternating down the rows
ContentColumns(r) == { [k \in 1..r |-> 1], [k \in 1..r |-> 1 + (k % 2)] }

LabelColumns(r) == { [k \in 1..r |-> 0], [k \in 1..r |-> k % 2] }

TablesOf(r, n) ==
    { [k \in 1..r |-> [content |-> c[k], labels |-> [i \in 1..n |-> cols[i][k]]]] :
        c \in ContentColumns(r), cols \in [1..n -> LabelColumns(r)] }

Tables == UNION { TablesOf(r, n) : r \in 1..MaxRows, n \in 1..MaxCols }

\* training data: one row, the first text
TrainTables == { t \in Tables : Len(t) = 1 /\ t[1].content = 1 }

NumCols(y) == Len(y[1])

Column(y, i) == [r \in 1..Len(y) |-> y[r][i]]

\* fgclassifier.utils.read_data(df, return_df=True): X, y and a copy of df
read_data(table) ==
    [X |-> [r \in 1..Len(table) |-> table[r].content],
     y |-> [r \in 1..Len(table) |-> table[r].labels],
     df |-> table]

\* ------------------------------------------------------------------------
\* Library collaborators: transforms, the fitted sub-classifiers, f1_score
\* ------------------------------------------------------------------------
Transforms == {"Tfidf", "Count", "DummyTransform"}

HasTransform(c) == Len(c) > 0 /\ c[1] \in Transforms

TransformValue(c, x) ==
    IF c[1] = "Tfidf" THEN (x + 1) % 3
    ELSE IF c[1] = "Count" THEN (2 * x) % 3
    ELSE x

Transform(c, X) == [r \in 1..Len(X) |-> TransformValue(c, X[r])]

RECURSIVE SeqSum(_)
SeqSum(s) == IF s = <<>> THEN 0 ELSE s[1] + SeqSum(Tail(s))

RECURSIVE SetSum(_, _)
SetSum(S, f) ==
    IF S = {} THEN 0
    ELSE LET c == CHOOSE c \in S : TRUE
         IN  f[c] + SetSum(S \ {c}, f)

Count(t, p, a, b) == Cardinality({ r \in 1..Len(t) : t[r] = a /\ p[r] = b })

\* sklearn.metrics.f1_score(y_true, y_pred, average='macro'), in hundredths
f1_score(t, p) ==
    LET present == { t[r] : r \in 1..Len(t) } \cup { p[r] : r \in 1..Len(p) }
        tp(c) == Count(t, p, c, c)
        fp(c) == Cardinality({ r \in 1..Len(t) : p[r] = c /\ t[r] # c })
        fn(c) == Cardinality({ r \in 1..Len(t) : t[r] = c /\ p[r] # c })
        f1 == [c \in present |-> (200 * tp(c)) \div (2 * tp(c) + fp(c) + fn(c))]
    IN  SetSum(present, f1) \div Cardinality(present)

\* numpy.mean of a sequence, as the exact quotient num / den
np_meanMax(s) ==
    [num |-> (CHOOSE v \in { s[i] : i \in 1..Len(s) } :
                 \A j \in 1..Len(s) : s[j] <= v),
     den |-> 1]

np_mean(s) == [num |-> SeqSum(s), den |-> Len(s)]

\* sklearn MultiOutputClassifier.predict: one fitted sub-classifier per column
MultiOutputClassifier_predict(est, Xt) ==
    [r \in 1..Len(Xt) |->
        [i \in 1..Len(est.params) |-> (Xt[r] + est.params[i]) % 2]]

\* sklearn Pipeline: X through every stage before the last, None stages skipped
Pipeline_transform(m, X) ==
    LET active == SelectSeq(SubSeq(m.steps, 1, Len(m.steps) - 1),
                            LAMBDA st : st.comp # <<>>)
        through[k \in 0..Len(active)] ==
            IF k = 0 THEN X ELSE Transform(active[k].comp, through[k - 1])
    IN  IF \A k \in 1..Len(active) : HasTransform(active[k].comp)
        THEN Ok(through[Len(active)])
        ELSE Err("AttributeError")

\* sklearn Pipeline.fit: fit one sub-classifier per column of y
Pipeline_fit(m, X, y) ==
    LET Xt == Pipeline_transform(m, X)
        final == m.steps[Len(m.steps)].comp
    IN  IF Xt.error # "" THEN [error |-> Xt.error, fitted |-> FALSE, params |-> <<>>]
        ELSE IF ~(Len(final) = 2 /\ final[2] \in RawClassifiers)
        THEN [error |-> "ValueError", fitted |-> FALSE, params |-> <<>>]
        ELSE [error |-> "", fitted |-> TRUE,
              params |-> [i \in 1..NumCols(y) |-> (y[1][i] + Xt.val[1]) % 2]]

\* sklearn Pipeline.predict
Pipeline_predict(m, est, X) ==
    LET Xt == Pipeline_transform(m, X)
    IN  IF Xt.error # "" THEN Xt
        ELSE IF ~est.fitted THEN Err("NotFittedError")
        ELSE Ok(MultiOutputClassifier_predict(est, Xt.val))

\* ------------------------------------------------------------------------
\* MultiOutputClassifier.scores, MultiOutputClassifier.score
\* ------------------------------------------------------------------------
MultiOutputClassifier_scoresFirstColumn(est, X, y) ==
    IF ~est.fitted THEN Err("NotFittedError")
    ELSE LET y_pred == MultiOutputClassifier_predict(est, X)
         IN  IF NumCols(y) > Len(est.params) THEN Err("IndexError")
             ELSE Ok([i \in 1..NumCols(y) |->
                        f1_score(Column(y, i), Column(y_pred, 1))])

MultiOutputClassifier_scores(est, X, y) ==
    IF ~est.fitted THEN Err("NotFittedError")
    ELSE LET y_pred == MultiOutputClassifier_predict(est, X)
         IN  IF NumCols(y) > Len(est.params) THEN Err("IndexError")
             ELSE Ok([i \in 1..NumCols(y) |->
                        f1_score(Column(y, i), Column(y_pred, i))])

MultiOutputClassifier_scoreMax(est, X, y) ==
    LET scores == MultiOutputClassifier_scores(est, X, y)
    IN  IF scores.error # "" THEN scores ELSE Ok(np_meanMax(scores.val))

MultiOutputClassifier_score(est, X, y) ==
    LET scores == MultiOutputClassifier_scores(est, X, y)
    IN  IF scores.error # "" THEN scores ELSE Ok(np_mean(scores.val))

\* sklearn Pipeline.score: the final stage's score() on the transformed X
Pipeline_score(m, est, X, y) ==
    LET Xt == Pipeline_transform(m, X)
    IN  IF Xt.error # "" THEN Xt
        ELSE MultiOutputClassifier_score(est, Xt.val, y)

\* ------------------------------------------------------------------------
\* Baseline.scores
\* ------------------------------------------------------------------------
\* the loop over self.steps[:-1], after k stages
RECURSIVE ScoresLoop(_, _, _)
ScoresLoop(steps, k, X) ==
    IF k = 0 THEN Ok(X)
    ELSE LET prev == ScoresLoop(steps, k - 1, X)
         IN  IF prev.error # "" THEN prev
             ELSE IF steps[k].comp = <<>> THEN prev
             ELSE IF ~HasTransform(steps[k].comp) THEN Err("AttributeError")
             ELSE Ok(Transform(steps[k].comp, prev.val))

Baseline_scores(m, est, X, y) ==
    LET Xt == ScoresLoop(m.steps, Len(m.steps) - 1, X)
    IN  IF Xt.error # "" THEN Xt
        ELSE MultiOutputClassifier_scores(est, Xt.val, y)

\* ------------------------------------------------------------------------
\* Baseline.predict_df
\* ------------------------------------------------------------------------
\* `if save_to:`
Truthy(save_to) == ~save_to.none /\ save_to.path # ""

Saved(d, save_to, table) ==
    IF Truthy(save_to) THEN [exists |-> TRUE, content |-> table] ELSE d

predict_dfSavesFirst(m, est, table, save_to, d) ==
    LET rd == read_data(table)
        pred == Pipeline_predict(m, est, rd.X)
    IN  IF pred.error # "" THEN [error |-> pred.error, val |-> <<>>, disk |-> d]
        ELSE IF Len(est.params) # NumCols(rd.y)
        THEN [error |-> "ValueError", val |-> <<>>, disk |-> d]
        ELSE LET filled == [r \in 1..Len(rd.df) |->
                              [content |-> EmptyContent, labels |-> pred.val[r]]]
             IN  [error |-> "", val |-> filled, disk |-> Saved(d, save_to, rd.df)]

predict_df(m, est, table, save_to, d) ==
    LET rd == read_data(table)
        cleared == [r \in 1..Len(rd.df) |->
                      [rd.df[r] EXCEPT !.content = EmptyContent]]
        pred == Pipeline_predict(m, est, rd.X)
    IN  IF pred.error # "" THEN [error |-> pred.error, val |-> <<>>, disk |-> d]
        ELSE IF Len(est.params) # NumCols(rd.y)
        THEN [error |-> "ValueError", val |-> <<>>, disk |-> d]
        ELSE LET filled == [r \in 1..Len(cleared) |->
                              [cleared[r] EXCEPT !.labels = pred.val[r]]]
             IN  [error |-> "", val |-> filled, disk |-> Saved(d, save_to, filled)]

\* ------------------------------------------------------------------------
\* Use of a constructed model: state and actions
\* ------------------------------------------------------------------------
EvalClassifiers == { Inst(LR) }

EvalLiterals ==
    { <<>>,
      <<Str("tfidf"), Inst(<<"Count">>)>>,
      <<Str("tfidf"), Pair("skip", <<>>)>> }

SaveToInputs == { NoSaveTo, SaveTo(""), SaveTo("out.csv") }

Built(cl, o) ==
    /\ o.error = ""
    /\ call = cl
    /\ result = [error |-> o.error, phases |-> o.phases, named |-> o.named]
    /\ model = [exists |-> TRUE, steps |-> o.pipeline]
    /\ callerSteps = o.list

EvalInit ==
    /\ stepsLiteral \in EvalLiterals
    /\ \E c \in EvalClassifiers :
         \/ Built([op |-> "Baseline", classifier |-> c, fm |-> NoneSpec,
                   stepsGiven |-> TRUE, stepsBefore |-> stepsLiteral],
                  Baseline__init__(c, NoneSpec, Given(stepsLiteral)))
         \/ /\ stepsLiteral = <<>>
            /\ Built([op |-> "Dummy", classifier |-> c, fm |-> NoneSpec,
                      stepsGiven |-> FALSE, stepsBefore |-> <<>>],
                     Dummy__init__(c))
    /\ estimators = Unfitted
    /\ df \in Tables
    /\ out = NoOut
    /\ disk = NoDisk

Built_ == <<stepsLiteral, callerSteps, call, result, model>>

\* model.fit(X, y) on a training table
Fit(train) ==
    LET rd == read_data(train)
        o == Pipeline_fit(model, rd.X, rd.y)
    IN  /\ estimators.fits < MaxFits
        /\ estimators' = [fitted |-> o.fitted, params |-> o.params,
                          fits |-> estimators.fits + 1]
        /\ out' = OutRec("fit", [error |-> o.error, val |-> <<>>], NoSaveTo, disk)
        /\ UNCHANGED <<Built_, df, disk>>

\* model.scores(X, y) on the caller's table
Scores ==
    LET rd == read_data(df)
    IN  /\ out' = OutRec("scores", Baseline_scores(model, estimators, rd.X, rd.y),
                         NoSaveTo, disk)
        /\ UNCHANGED <<Built_, estimators, df, disk>>

\* model.score(X, y) on the caller's table
Score ==
    LET rd == read_data(df)
    IN  /\ out' = OutRec("score", Pipeline_score(model, estimators, rd.X, rd.y),
                         NoSaveTo, disk)
        /\ UNCHANGED <<Built_, estimators, df, disk>>

\* model.predict_df(df, save_to)
PredictDf(save_to) ==
    LET o == predict_df(model, estimators, df, save_to, disk)
    IN  /\ out' = OutRec("predict_df", o, save_to, disk)
        /\ disk' = o.disk
        /\ UNCHANGED <<Built_, estimators, df>>

EvalNext ==
    \/ \E t \in TrainTables : Fit(t)
    \/ Scores
    \/ Score
    \/ \E s \in SaveToInputs : PredictDf(s)

EvalSpec == EvalInit /\ [][EvalNext]_vars

\* ------------------------------------------------------------------------
\* Properties of scoring and prediction
\* ------------------------------------------------------------------------
\* a feature value after the transforms of the stages before the last, in
\* stage order, None stages left out
FeatureOf(m, x) ==
    LET n == Len(m.steps) - 1
        v[k \in 0..n] ==
            IF k = 0 THEN x
            ELSE IF m.steps[k].comp = <<>> THEN v[k - 1]
            ELSE TransformValue(m.steps[k].comp, v[k - 1])
    IN  v[n]

\* the label the fitted model predicts for row r of the table, column i
PredictedLabel(r, i) ==
    (FeatureOf(model, df[r].content) + estimators.params[i]) % 2

TableScores == Baseline_scores(model, estimators, read_data(df).X, read_data(df).y)

\* C5: score(X, y) is the arithmetic mean of scores(X, y) on the same inputs:
\* the sum of the per-column values divided by the number of columns; the
\* per-column scores 0.80 and 0.60 give 0.70.
C5_ScoreIsMean ==
    /\ (out.op = "score" /\ out.error = "") =>
         /\ TableScores.error = ""
         /\ out.val.den > 0
         /\ out.val.num * Len(TableScores.val) = SeqSum(TableScores.val) * out.val.den
    /\ np_mean(<<80, 60>>).num = 70 * np_mean(<<80, 60>>).den

C5_Witness ==
    /\ out.op = "score" /\ out.error = ""
    /\ Len(model.steps) = 3
    /\ Len(TableScores.val) = 2
    /\ TableScores.val[1] # TableScores.val[2]

\* C6: scores(X, y) has one element per column of y, the i-th being the score
\* of the i-th column of y against the i-th column of the predictions, and the
\* predictions are made from X after the transforms of all stages before the
\* last, in stage order, skipping None stages.
C6_ScoresAligned ==
    (out.op = "scores" /\ out.error = "") =>
        /\ Len(out.val) = NumCols(read_data(df).y)
        /\ \A i \in 1..Len(out.val) :
             out.val[i] = f1_score([r \in 1..Len(df) |-> df[r].labels[i]],
                                   [r \in 1..Len(df) |-> PredictedLabel(r, i)])

C6_Witness ==
    /\ out.op = "scores" /\ out.error = ""
    /\ Len(model.steps) = 3
    /\ model.steps[2] = Stage("skip", <<>>)
    /\ Len(df) = 2
    /\ Len(out.val) = 2
    /\ out.val[1] # out.val[2]

\* C10: predict_df returns a table with the rows of the input in the same
\* order, an empty content cell in every row and the predictions in the target
\* columns; it is written to the destination exactly when save_to names one
\* (a non-empty path), what is written is the table after the content was
\* cleared and the targets overwritten, and without save_to nothing is
\* written.
C10_PredictDf ==
    (out.op = "predict_df" /\ out.error = "") =>
        /\ Len(out.val) = Len(df)
        /\ \A r \in 1..Len(df) :
             /\ out.val[r].content = EmptyContent
             /\ out.val[r].labels =
                  [i \in 1..Len(df[r].labels) |-> PredictedLabel(r, i)]
        /\ (~out.saveTo.none /\ out.saveTo.path # "") =>
             disk = [exists |-> TRUE, content |-> out.val]
        /\ (out.saveTo.none \/ out.saveTo.path = "") => disk = out.diskBefore

C10_Witness ==
    /\ out.op = "predict_df" /\ out.error = ""
    /\ out.saveTo = SaveTo("out.csv")
    /\ Len(df) = 2
    /\ out.diskBefore = NoDisk
    /\ disk.exists /\ disk.content = out.val

====
